---- MODULE Spec2Model ----
(***************************************************************************)
(* Session store and query classification of the breast cancer companion   *)
(* backend (src/services/ai_agent.py, src/services/knowledge_base.py).      *)
(*                                                                         *)
(* Spec         : SessionManager, the process-wide session store, driven   *)
(*                by arbitrary calls of its four class methods.            *)
(* SpecClassify : classify_query applied to bounded texts.                 *)
(* SpecConfidence : _calculate_confidence applied to bounded answers.      *)
(* SpecSearch   : KnowledgeBaseService.search and get_relevant_context     *)
(*                (src/services/knowledge_base.py) behind their callers.   *)
(* SpecChat     : chat_with_agent behind the POST /chat route.             *)
(* SpecDelete   : DELETE /knowledge/document/{document_id}.                *)
(* SpecHealth   : the lazily built provider clients (src/config/aws.py)    *)
(*                and GET /health.                                         *)
(* SpecErrors   : the payload each endpoint sends when a provider fails,   *)
(*                in two runs that differ in the exception text.           *)
(* SpecLoop     : concurrent requests on the event loop of the process.    *)
(***************************************************************************)
EXTENDS Integers, Sequences, FiniteSets, TLC

(***************************************************************************)
(* Bounds of the model                                                     *)
(***************************************************************************)
\* utcnow() takes values in 0..MaxTime
MaxTime == 1
\* number of add_message calls a run makes after its start state
MaxAppends == 1
\* number of messages already exchanged on session "s1" in a warm start
Warm == 10
\* largest max_messages argument passed to get_history
MaxCap == 2

(***************************************************************************)
(* Python values                                                           *)
(***************************************************************************)
\* the value None of an Optional[str]
None == "<None>"
\* session ids a client can name; "u1" is also the id uuid4 can mint
SessionIds == {"s1", "u1"}
\* what uuid.uuid4() can return
UUIDs == {"u1"}
\* session_id arguments: absent, empty, or a client-chosen string
SessionArgs == {None, ""} \cup SessionIds
Roles == {"user", "assistant"}
Contents == {"q"}

Min(a, b) == IF a < b THEN a ELSE b
Max(a, b) == IF a > b THEN a ELSE b

\* Python truth value of an Optional[str]: None and "" are falsy
Truthy(s) == s # None /\ s # ""

\* Python slice s[i:] of a list (a negative i counts from the end)
SliceFrom(s, i) ==
  LET start == IF i < 0 THEN Max(Len(s) + i, 0) ELSE Min(i, Len(s))
  IN SubSeq(s, start + 1, Len(s))

\* datetime.isoformat(): the text of a time
isoformat(t) == "T" \o ToString(t)

(***************************************************************************)
(* SessionManager (class methods over the class attribute _sessions)       *)
(***************************************************************************)
\* message history kept per session (messages[-10:])
MaxHistory == 10
\* default of get_history's max_messages
DefaultMaxMessages == 5

\* _sessions = {}
EmptySessions == [k \in {} |-> None]

Put(S, sid, rec) == [k \in DOMAIN S \cup {sid} |-> IF k = sid THEN rec ELSE S[k]]
Remove(S, sid) == [k \in DOMAIN S \ {sid} |-> S[k]]

\* faulty variant: a supplied unknown id is ignored and a uuid is minted
get_or_create_session_mint(S, session_id, uuid, t1, t2) ==
  IF Truthy(session_id) /\ session_id \in DOMAIN S
  THEN [store |-> [S EXCEPT ![session_id].last_active = t1],
        ret |-> session_id, raised |-> FALSE]
  ELSE [store |-> Put(S, uuid, [created_at |-> t1, last_active |-> t2,
                                messages |-> <<>>, user_id |-> None]),
        ret |-> uuid, raised |-> FALSE]

\* faulty variant: a known session is created again (its history is reset)
get_or_create_session_reset(S, session_id, uuid, t1, t2) ==
  LET new_id == IF Truthy(session_id) THEN session_id ELSE uuid
  IN [store |-> Put(S, new_id, [created_at |-> t1, last_active |-> t2,
                                messages |-> <<>>, user_id |-> None]),
      ret |-> new_id, raised |-> FALSE]

\* get_or_create_session(session_id); uuid is what uuid4() returns if it is
\* called, t1 and t2 the values of the successive utcnow() calls
get_or_create_session(S, session_id, uuid, t1, t2) ==
  IF Truthy(session_id) /\ session_id \in DOMAIN S
  THEN [store |-> [S EXCEPT ![session_id].last_active = t1],
        ret |-> session_id, raised |-> FALSE]
  ELSE LET new_id == IF Truthy(session_id) THEN session_id ELSE uuid
       IN [store |-> Put(S, new_id, [created_at |-> t1, last_active |-> t2,
                                     messages |-> <<>>, user_id |-> None]),
           ret |-> new_id, raised |-> FALSE]

\* faulty variant: the history is never truncated
add_message_unbounded(S, session_id, role, content, t) ==
  IF session_id \in DOMAIN S
  THEN [store |-> [S EXCEPT ![session_id].messages =
                     Append(@, [role |-> role, content |-> content,
                                timestamp |-> isoformat(t)])],
        raised |-> FALSE]
  ELSE [store |-> S, raised |-> FALSE]

\* faulty variant: truncation keeps the first 10 messages (messages[:10])
add_message_keep_first(S, session_id, role, content, t) ==
  IF session_id \in DOMAIN S
  THEN LET all == Append(S[session_id].messages,
                         [role |-> role, content |-> content,
                          timestamp |-> isoformat(t)])
       IN [store |-> [S EXCEPT ![session_id].messages =
                                  SubSeq(all, 1, Min(Len(all), 10))],
           raised |-> FALSE]
  ELSE [store |-> S, raised |-> FALSE]

\* faulty variant: an unknown session is created on the fly (setdefault)
add_message_autocreate(S, session_id, role, content, t) ==
  LET old == IF session_id \in DOMAIN S THEN S[session_id].messages ELSE <<>>
      all == Append(old, [role |-> role, content |-> content,
                          timestamp |-> isoformat(t)])
      rec == IF session_id \in DOMAIN S
             THEN [S[session_id] EXCEPT !.messages = SliceFrom(all, -10)]
             ELSE [created_at |-> t, last_active |-> t,
                   messages |-> all, user_id |-> None]
  IN [store |-> Put(S, session_id, rec), raised |-> FALSE]

\* add_message(session_id, role, content); t is utcnow()
add_message(S, session_id, role, content, t) ==
  IF session_id \in DOMAIN S
  THEN LET appended_ == Append(S[session_id].messages,
                               [role |-> role, content |-> content,
                                timestamp |-> isoformat(t)])
       IN [store |-> [S EXCEPT ![session_id].messages =
                                  SliceFrom(appended_, -MaxHistory)],
           raised |-> FALSE]
  ELSE [store |-> S, raised |-> FALSE]

\* faulty variant: the oldest max_messages entries (messages[:max_messages])
get_history_head(S, session_id, max_messages) ==
  IF session_id \notin DOMAIN S
  THEN <<>>
  ELSE SubSeq(S[session_id].messages, 1,
              Min(Max(max_messages, 0), Len(S[session_id].messages)))

\* get_history(session_id, max_messages)
get_history(S, session_id, max_messages) ==
  IF session_id \notin DOMAIN S
  THEN <<>>
  ELSE SliceFrom(S[session_id].messages, -max_messages)

\* faulty variant: clearing one session empties the whole store
clear_session_all(S, session_id) ==
  IF session_id \in DOMAIN S
  THEN [store |-> EmptySessions, raised |-> FALSE]
  ELSE [store |-> S, raised |-> FALSE]

\* faulty variant: del without the membership test (KeyError when unknown)
clear_session_unguarded(S, session_id) ==
  [store |-> Remove(S, session_id), raised |-> session_id \notin DOMAIN S]

\* clear_session(session_id)
clear_session(S, session_id) ==
  IF session_id \in DOMAIN S
  THEN [store |-> Remove(S, session_id), raised |-> FALSE]
  ELSE [store |-> S, raised |-> FALSE]

(***************************************************************************)
(* State                                                                   *)
(***************************************************************************)
VARIABLES
  sessions,   \* SessionManager._sessions
  now,        \* the wall clock read by datetime.utcnow()
  call,       \* the last call made on the store and what it returned
  log,        \* history variable: per stored session, every message
              \* appended to it since it was created
  appends,    \* number of add_message calls made by the run
  query,      \* input of classify_query
  category,   \* result of classify_query
  conf,       \* a generate_response call computing its confidence
  srch,       \* a knowledge base retrieval call in progress
  chat,       \* the chat request in progress and its response
  turns,      \* history variable: per stored session, the chat calls that
              \* ended on it since it was created
  http,       \* a request to a knowledge base or health endpoint and its
              \* response
  clients,    \* the module globals of config/aws.py and the knowledge base
              \* singleton
  loop        \* the event loop: the request tasks and the one running

vars == <<sessions, now, call, log, appends, query, category,
          conf, srch, chat, turns, http, clients, loop>>
storeVars == <<sessions, now, call, log, appends>>
classifyVars == <<query, category>>
confVars == <<conf>>
searchVars == <<srch>>
chatVars == <<chat, turns>>
sysVars == <<http, clients, loop>>

\* no call of the kind is in progress
NoConf == [pc |-> "none"]
NoSearch == [pc |-> "none"]
NoChat == [pc |-> "none"]
NoHttp == [pc |-> "none"]
NoClients == [pc |-> "none"]
NoLoop == [pc |-> "none"]

NoCall == [op |-> "none", sid |-> None, cap |-> 0, defaulted |-> FALSE,
           retId |-> None, retHist |-> <<>>, raised |-> FALSE]

\* the message add_message stores
Message(role, content, t) ==
  [role |-> role, content |-> content, timestamp |-> isoformat(t)]

\* the k-th message of a scripted conversation: a question, then its answer
ScriptRole(k) == IF k % 2 = 1 THEN "user" ELSE "assistant"
ScriptContent(k) == IF k % 2 = 1 THEN "q" ELSE "a"

RECURSIVE Replay(_)
\* the store after get_or_create_session("s1") and k scripted add_message calls
Replay(k) ==
  IF k = 0
  THEN get_or_create_session(EmptySessions, "s1", "u1", 0, 0).store
  ELSE add_message(Replay(k - 1), "s1", ScriptRole(k), ScriptContent(k), 0).store

ReplayLog(k) == [i \in 1..k |-> Message(ScriptRole(i), ScriptContent(i), 0)]

\* A run starts at process start (empty store) or in the middle of a
\* conversation on "s1" (the store after Warm scripted messages).
InitStore ==
  /\ now = 0
  /\ call = NoCall
  /\ appends = 0
  /\ \/ /\ sessions = EmptySessions
        /\ log = EmptySessions
     \/ /\ sessions = Replay(Warm)
        /\ log = [k \in {"s1"} |-> ReplayLog(Warm)]

(***************************************************************************)
(* Actions of the session store                                            *)
(***************************************************************************)
\* time passes
Tick ==
  /\ now < MaxTime
  /\ now' = now + 1
  /\ UNCHANGED <<sessions, call, log, appends>>

GetOrCreateSession(session_id) ==
  \E uuid \in UUIDs, t2 \in now..Min(now + 1, MaxTime) :
    \* uuid4() is only called for a falsy id, and mints an unused id
    /\ Truthy(session_id) \/ uuid \notin DOMAIN sessions
    /\ LET known == Truthy(session_id) /\ session_id \in DOMAIN sessions
           r == get_or_create_session(sessions, session_id, uuid, now, t2)
       IN /\ sessions' = r.store
          /\ now' = IF known THEN now ELSE t2
          /\ log' = IF known THEN log ELSE Put(log, r.ret, <<>>)
          /\ call' = [NoCall EXCEPT !.op = "get_or_create_session",
                                    !.sid = session_id, !.retId = r.ret,
                                    !.raised = r.raised]
    /\ UNCHANGED appends

AddMessage(session_id, role, content) ==
  /\ appends < MaxAppends
  /\ LET r == add_message(sessions, session_id, role, content, now)
     IN /\ sessions' = r.store
        /\ call' = [NoCall EXCEPT !.op = "add_message", !.sid = session_id,
                                  !.raised = r.raised]
  /\ log' = IF session_id \in DOMAIN log
            THEN [log EXCEPT ![session_id] = Append(@, Message(role, content, now))]
            ELSE log
  /\ appends' = appends + 1
  /\ UNCHANGED now

\* get_history(session_id, max_messages)
GetHistory(session_id, max_messages) ==
  /\ call' = [NoCall EXCEPT !.op = "get_history", !.sid = session_id,
                            !.cap = max_messages,
                            !.retHist = get_history(sessions, session_id, max_messages)]
  /\ UNCHANGED <<sessions, now, log, appends>>

\* get_history(session_id): max_messages takes its default
GetHistoryDefault(session_id) ==
  /\ call' = [NoCall EXCEPT !.op = "get_history", !.sid = session_id,
                            !.cap = DefaultMaxMessages, !.defaulted = TRUE,
                            !.retHist = get_history(sessions, session_id,
                                                    DefaultMaxMessages)]
  /\ UNCHANGED <<sessions, now, log, appends>>

ClearSession(session_id) ==
  /\ LET r == clear_session(sessions, session_id)
     IN /\ sessions' = r.store
        /\ call' = [NoCall EXCEPT !.op = "clear_session", !.sid = session_id,
                                  !.raised = r.raised]
  /\ log' = Remove(log, session_id)
  /\ UNCHANGED <<now, appends>>

NextStore ==
  /\ \/ Tick
     \/ \E sid \in SessionArgs : GetOrCreateSession(sid)
     \/ \E sid \in SessionIds, role \in Roles, content \in Contents :
          AddMessage(sid, role, content)
     \/ \E sid \in SessionIds, m \in 0..MaxCap : GetHistory(sid, m)
     \/ \E sid \in SessionIds : GetHistoryDefault(sid)
     \/ \E sid \in SessionIds : ClearSession(sid)
  /\ UNCHANGED <<classifyVars, confVars, searchVars, chatVars, sysVars>>

Init ==
  /\ InitStore
  /\ query = "" /\ category = None
  /\ conf = NoConf /\ srch = NoSearch
  /\ chat = NoChat /\ turns = EmptySessions
  /\ http = NoHttp /\ clients = NoClients /\ loop = NoLoop
Next == NextStore
Spec == Init /\ [][Next]_vars

(***************************************************************************)
(* classify_query                                                          *)
(***************************************************************************)
\* number of vocabulary phrases in a query text
MaxWords == 2

UpperCase == "ABCDEFGHIJKLMNOPQRSTUVWXYZ"
LowerCase == "abcdefghijklmnopqrstuvwxyz"

\* the i-th character of a string
Char(s, i) == SubSeq(s, i, i)

lower_char(c) ==
  IF \E i \in 1..26 : Char(UpperCase, i) = c
  THEN Char(LowerCase, CHOOSE i \in 1..26 : Char(UpperCase, i) = c)
  ELSE c

RECURSIVE str_lower(_)
\* str.lower()
str_lower(s) ==
  IF Len(s) = 0 THEN "" ELSE lower_char(Char(s, 1)) \o str_lower(SubSeq(s, 2, Len(s)))

\* Python's substring test: keyword in text
Contains(keyword, text) ==
  \E i \in 1..(Len(text) - Len(keyword) + 1) :
    SubSeq(text, i, i + Len(keyword) - 1) = keyword

\* QUERY_CATEGORIES, in the insertion order of the dict
QUERY_CATEGORIES == <<
  [name |-> "symptoms",
   keywords |-> <<"symptom", "pain", "lump", "discharge", "swelling",
                  "fatigue", "tired", "ache">>],
  [name |-> "treatment",
   keywords |-> <<"treatment", "surgery", "mastectomy", "lumpectomy",
                  "radiation", "chemo", "therapy">>],
  [name |-> "medication",
   keywords |-> <<"medicine", "medication", "drug", "tamoxifen", "herceptin",
                  "dose", "prescription">>],
  [name |-> "side_effects",
   keywords |-> <<"side effect", "nausea", "hair loss", "fatigue", "vomiting",
                  "pain", "reaction">>],
  [name |-> "lifestyle",
   keywords |-> <<"exercise", "diet", "sleep", "work", "travel", "activity",
                  "daily life">>],
  [name |-> "emotional_support",
   keywords |-> <<"scared", "anxious", "depressed", "worried", "cope",
                  "support", "family", "feeling">>],
  [name |-> "nutrition",
   keywords |-> <<"food", "eat", "diet", "nutrition", "supplement", "vitamin",
                  "weight">>],
  [name |-> "follow_up_care",
   keywords |-> <<"follow up", "checkup", "scan", "mammogram", "monitoring",
                  "recurrence", "survivor">>] >>

\* QueryCategory.GENERAL
GENERAL == "general"

\* faulty variant: 1 if any keyword occurs, whatever their number
keyword_score_any(keywords, text, i) ==
  IF \E k \in 1..Len(keywords) : Contains(keywords[k], text) THEN 1 ELSE 0

RECURSIVE keyword_score(_, _, _)
\* sum(1 for keyword in keywords if keyword in query_lower), from keyword i on
keyword_score(keywords, text, i) ==
  IF i > Len(keywords) THEN 0
  ELSE (IF Contains(keywords[i], text) THEN 1 ELSE 0)
       + keyword_score(keywords, text, i + 1)

RECURSIVE max_value(_, _, _)
\* max(scores.values()): scan from position i with the largest value so far
max_value(scores, i, best) ==
  IF i > Len(scores) THEN best
  ELSE max_value(scores, i + 1, IF scores[i] > best THEN scores[i] ELSE best)

RECURSIVE max_by_score_last(_, _, _)
\* faulty variant: a later category replaces an equal earlier one (last maximum)
max_by_score_last(scores, i, best) ==
  IF i > Len(scores) THEN best
  ELSE max_by_score_last(scores, i + 1, IF scores[i] >= scores[best] THEN i ELSE best)

RECURSIVE max_by_score(_, _, _)
\* max(scores, key=scores.get): scan the keys in order from position i; a key
\* replaces the best so far only when its score is strictly greater
max_by_score(scores, i, best) ==
  IF i > Len(scores) THEN best
  ELSE max_by_score(scores, i + 1, IF scores[i] > scores[best] THEN i ELSE best)

classify_query(q) ==
  LET query_lower == str_lower(q)
      scores == [c \in 1..Len(QUERY_CATEGORIES) |->
                   keyword_score(QUERY_CATEGORIES[c].keywords, query_lower, 1)]
  IN IF max_value(scores, 2, scores[1]) > 0
     THEN QUERY_CATEGORIES[max_by_score(scores, 2, 1)].name
     ELSE GENERAL

\* phrases the query texts are made of
Vocabulary == {"lump", "Lumpectomy", "surgery", "PAIN", "diet", "treatment",
               "side effects", "chemo", "hello"}

RECURSIVE Join(_)
\* the phrases of a sequence, separated by blanks
Join(ws) ==
  IF Len(ws) = 0 THEN ""
  ELSE IF Len(ws) = 1 THEN ws[1]
  ELSE ws[1] \o " " \o Join(Tail(ws))

Texts == {Join(ws) : ws \in UNION {[1..n -> Vocabulary] : n \in 0..MaxWords}}

\* a query text arrives; it is not classified yet
InitClassify ==
  /\ query \in Texts
  /\ category = None
  /\ sessions = EmptySessions /\ log = EmptySessions
  /\ now = 0 /\ call = NoCall /\ appends = 0
  /\ conf = NoConf /\ srch = NoSearch
  /\ chat = NoChat /\ turns = EmptySessions
  /\ http = NoHttp /\ clients = NoClients /\ loop = NoLoop

Classify ==
  /\ category = None
  /\ category' = classify_query(query)
  /\ UNCHANGED <<query, storeVars, confVars, searchVars, chatVars, sysVars>>

NextClassify == Classify
SpecClassify == InitClassify /\ [][NextClassify]_vars

(***************************************************************************)
(* BreastCancerCompanionAgent._calculate_confidence (in hundredths)        *)
(***************************************************************************)
\* longest generated answer considered
MaxAnswerLen == 502
\* longest list of knowledge sources considered
MaxSources == 1

\* confidence = 0.7
BaseConfidence == 70
\* confidence += 0.1 when sources were used
SourcesBonus == 10
\* confidence += 0.05 for a detailed response
LengthBonus == 5
\* len(response) > 500
DetailedLength == 500
\* min(confidence, 0.95)
ConfidenceCap == 95

\* the value None of an Optional[List]
NoList == <<None>>
\* Python truth value of an Optional[List]: None and [] are falsy
TruthyList(l) == l # NoList /\ Len(l) > 0

\* faulty variant: an answer without sources is penalised
calculate_confidence_penalty(response_len, sources) ==
  LET c1 == IF TruthyList(sources) THEN 70 + 10 ELSE 70 - 10
      c2 == IF response_len > 500 THEN c1 + 5 ELSE c1
  IN Min(c2, 95)

\* _calculate_confidence(response, sources); response_len is len(response)
calculate_confidence(response_len, sources) ==
  LET c0 == BaseConfidence
      c1 == IF TruthyList(sources) /\ Len(sources) > 0
            THEN c0 + SourcesBonus ELSE c0
      c2 == IF response_len > DetailedLength THEN c1 + LengthBonus ELSE c1
  IN Min(c2, ConfidenceCap)

\* knowledge sources handed to generate_response: absent, or a list
SourceLists == {NoList} \cup UNION {[1..n -> {"doc"}] : n \in 0..MaxSources}

\* the provider has produced an answer of some length for some sources
InitConfidence ==
  /\ \E n \in 0..MaxAnswerLen, src \in SourceLists :
       conf = [pc |-> "answered", answer_len |-> n, sources |-> src,
               confidence |-> None]
  /\ query = "" /\ category = None
  /\ sessions = EmptySessions /\ log = EmptySessions
  /\ now = 0 /\ call = NoCall /\ appends = 0
  /\ srch = NoSearch /\ chat = NoChat /\ turns = EmptySessions
  /\ http = NoHttp /\ clients = NoClients /\ loop = NoLoop

\* generate_response computes the confidence and returns it with the answer
CalculateConfidence ==
  /\ conf.pc = "answered"
  /\ conf' = [conf EXCEPT !.pc = "returned",
                          !.confidence =
                            calculate_confidence(conf.answer_len, conf.sources)]
  /\ UNCHANGED <<storeVars, classifyVars, searchVars, chatVars, sysVars>>

NextConfidence == CalculateConfidence
SpecConfidence == InitConfidence /\ [][NextConfidence]_vars

(***************************************************************************)
(* KnowledgeBaseService.search, get_relevant_context and the               *)
(* POST /knowledge/search route                                            *)
(***************************************************************************)
\* longest hit list the Document Index returns
MaxHits == 3
\* largest limit a caller passes (the route accepts 1..50)
MaxLimit == 2

\* what the Embedding Provider does with a request: answers with a vector,
\* answers without an "embedding" field, or fails
EmbeddingOutcomes == {"vector", "no_field", "error"}

\* EmbeddingService.create_embedding(text): the embedding, [] when the answer
\* has no "embedding" field, None when the provider call raised
create_embedding(outcome) ==
  CASE outcome = "vector" -> <<"0.12", "0.56">>
    [] outcome = "no_field" -> <<>>
    [] outcome = "error" -> NoList

\* faulty variant: only None counts as a missing embedding
embedding_missing_none_only(query_embedding) == query_embedding = NoList

\* if not query_embedding
embedding_missing(query_embedding) == ~TruthyList(query_embedding)

\* filters built from the optional category and content_type
build_filters(category_, content_type) ==
  (IF category_ # None THEN <<[term |-> "category", value |-> category_]>> ELSE <<>>)
  \o (IF content_type # None
      THEN <<[term |-> "content_type", value |-> content_type]>> ELSE <<>>)

\* hybrid_query: a knn clause and a multi_match clause of which one must
\* match, 2 * limit hits asked for, and the filters when there are any
build_query(query_text, query_embedding, filters, limit) ==
  [size |-> limit * 2,
   should |-> <<[clause |-> "knn", vector |-> query_embedding, k |-> limit * 2],
                [clause |-> "multi_match", text |-> query_text,
                 fields |-> <<"title^3", "content">>]>>,
   minimum_should_match |-> 1,
   filter |-> filters]

\* ContentType values
ContentTypes == {"medical_article", "faq", "patient_guide", "research_summary",
                 "support_resource"}

\* hits the index can return: two hits of document d1, a hit without
\* document_id whose _id is d2, and a hit of d2 with an unknown content_type
HitPool == {
  [_id |-> "a", document_id |-> "d1", _score |-> 9, content_type |-> "faq"],
  [_id |-> "b", document_id |-> "d1", _score |-> 7, content_type |-> "faq"],
  [_id |-> "d2", document_id |-> None, _score |-> 5, content_type |-> "patient_guide"],
  [_id |-> "c", document_id |-> "d2", _score |-> 3, content_type |-> "leaflet"] }

HitLists == UNION {[1..n -> HitPool] : n \in 0..MaxHits}

\* source.get("document_id", hit["_id"])
hit_doc_id(hit) == IF hit.document_id = None THEN hit._id ELSE hit.document_id

\* KnowledgeSearchResult built from a hit
search_result(hit) ==
  [document_id |-> hit_doc_id(hit), relevance_score |-> hit._score,
   content_type |-> hit.content_type]

RECURSIVE parse_hits_no_dedup(_, _, _, _, _)
\* faulty variant: duplicates are not skipped
parse_hits_no_dedup(hits, limit, i, seen_docs, results) ==
  IF i > Len(hits) THEN [raised |-> FALSE, results |-> results]
  ELSE IF hits[i].content_type \notin ContentTypes
       THEN [raised |-> TRUE, results |-> <<>>]
       ELSE LET more == Append(results, search_result(hits[i]))
            IN IF Len(more) >= limit
               THEN [raised |-> FALSE, results |-> more]
               ELSE parse_hits_no_dedup(hits, limit, i + 1, seen_docs, more)

RECURSIVE parse_hits_overrun(_, _, _, _, _)
\* faulty variant: the loop stops one result late (len(results) > limit)
parse_hits_overrun(hits, limit, i, seen_docs, results) ==
  IF i > Len(hits) THEN [raised |-> FALSE, results |-> results]
  ELSE LET doc_id == hit_doc_id(hits[i])
       IN IF doc_id \in seen_docs
          THEN parse_hits_overrun(hits, limit, i + 1, seen_docs, results)
          ELSE IF hits[i].content_type \notin ContentTypes
               THEN [raised |-> TRUE, results |-> <<>>]
               ELSE LET more == Append(results, search_result(hits[i]))
                    IN IF Len(more) > limit
                       THEN [raised |-> FALSE, results |-> more]
                       ELSE parse_hits_overrun(hits, limit, i + 1,
                                               seen_docs \cup {doc_id}, more)

RECURSIVE parse_hits(_, _, _, _, _)
\* the loop over the hits, from hit i on: a hit whose document id was seen is
\* skipped; ContentType(...) raises for an unknown content type; the loop
\* stops once limit results are collected
parse_hits(hits, limit, i, seen_docs, results) ==
  IF i > Len(hits) THEN [raised |-> FALSE, results |-> results]
  ELSE LET doc_id == hit_doc_id(hits[i])
       IN IF doc_id \in seen_docs
          THEN parse_hits(hits, limit, i + 1, seen_docs, results)
          ELSE IF hits[i].content_type \notin ContentTypes
               THEN [raised |-> TRUE, results |-> <<>>]
               ELSE LET more == Append(results, search_result(hits[i]))
                    IN IF Len(more) >= limit
                       THEN [raised |-> FALSE, results |-> more]
                       ELSE parse_hits(hits, limit, i + 1,
                                       seen_docs \cup {doc_id}, more)

\* the context entries get_relevant_context builds from the results
context_of(results) ==
  [k \in 1..Len(results) |->
     [content_type |-> results[k].content_type,
      score |-> results[k].relevance_score]]

\* the callers of search: the POST /knowledge/search route and
\* get_relevant_context
SearchCallers == {"route", "get_relevant_context"}
FilterCategories == {None, "treatment"}
FilterContentTypes == {None, "faq"}

\* A retrieval call has been made on a service constructed with or without
\* use_vectors. get_relevant_context passes no content_type.
InitSearch ==
  /\ \E caller \in SearchCallers, use_vectors \in BOOLEAN, limit \in 1..MaxLimit,
        cat \in FilterCategories, ctype \in FilterContentTypes :
       /\ caller = "get_relevant_context" => ctype = None
       /\ srch = [pc |-> "called", caller |-> caller, use_vectors |-> use_vectors,
                  query |-> "chemo", category |-> cat, content_type |-> ctype,
                  limit |-> limit, embedding |-> "pending", embed_calls |-> 0,
                  index_calls |-> 0, index |-> "pending", sent |-> <<>>,
                  hits |-> <<>>, results |-> <<>>, total_results |-> 0,
                  out |-> [kind |-> "pending"]]
  /\ query = "" /\ category = None
  /\ sessions = EmptySessions /\ log = EmptySessions
  /\ now = 0 /\ call = NoCall /\ appends = 0
  /\ conf = NoConf /\ chat = NoChat /\ turns = EmptySessions
  /\ http = NoHttp /\ clients = NoClients /\ loop = NoLoop

\* search creates the query embedding and raises when there is none
SearchEmbed(outcome) ==
  /\ srch.pc = "called"
  /\ LET query_embedding == create_embedding(outcome)
     IN srch' = [srch EXCEPT !.embedding = outcome,
                             !.embed_calls = @ + 1,
                             !.pc = IF embedding_missing(query_embedding)
                                    THEN "raised" ELSE "embedded"]
  /\ UNCHANGED <<storeVars, classifyVars, confVars, chatVars, sysVars>>

\* search sends the hybrid query; the index call raises
SearchIndexFails ==
  /\ srch.pc = "embedded"
  /\ srch' = [srch EXCEPT
       !.sent = <<build_query(srch.query, create_embedding(srch.embedding),
                              build_filters(srch.category, srch.content_type),
                              srch.limit)>>,
       !.index_calls = @ + 1, !.index = "error", !.pc = "raised"]
  /\ UNCHANGED <<storeVars, classifyVars, confVars, chatVars, sysVars>>

\* search sends the hybrid query; the index answers with hits, which are
\* parsed and deduplicated
SearchIndexAnswers(hits) ==
  /\ srch.pc = "embedded"
  /\ LET parsed == parse_hits(hits, srch.limit, 1, {}, <<>>)
     IN srch' = [srch EXCEPT
          !.sent = <<build_query(srch.query, create_embedding(srch.embedding),
                                 build_filters(srch.category, srch.content_type),
                                 srch.limit)>>,
          !.index_calls = @ + 1, !.index = "answered", !.hits = hits,
          !.results = parsed.results,
          !.total_results = Len(parsed.results),
          !.pc = IF parsed.raised THEN "raised" ELSE "returned"]
  /\ UNCHANGED <<storeVars, classifyVars, confVars, chatVars, sysVars>>

\* search_knowledge_base: the response, or HTTP 500 for any exception
RouteResponds ==
  /\ srch.caller = "route"
  /\ srch.pc \in {"returned", "raised"}
  /\ srch' = [srch EXCEPT
       !.pc = "done",
       !.out = IF srch.pc = "returned"
               THEN [kind |-> "response", status |-> 200,
                     results |-> srch.results,
                     total_results |-> srch.total_results]
               ELSE [kind |-> "error", status |-> 500,
                     detail |-> "Error searching knowledge base"]]
  /\ UNCHANGED <<storeVars, classifyVars, confVars, chatVars, sysVars>>

\* get_relevant_context: the context list, or [] for any exception
ContextReturns ==
  /\ srch.caller = "get_relevant_context"
  /\ srch.pc \in {"returned", "raised"}
  /\ srch' = [srch EXCEPT
       !.pc = "done",
       !.out = IF srch.pc = "returned"
               THEN [kind |-> "value", context |-> context_of(srch.results)]
               ELSE [kind |-> "value", context |-> <<>>]]
  /\ UNCHANGED <<storeVars, classifyVars, confVars, chatVars, sysVars>>

NextSearch ==
  \/ \E outcome \in EmbeddingOutcomes : SearchEmbed(outcome)
  \/ SearchIndexFails
  \/ \E hits \in HitLists : SearchIndexAnswers(hits)
  \/ RouteResponds
  \/ ContextReturns

SpecSearch == InitSearch /\ [][NextSearch]_vars

(***************************************************************************)
(* chat_with_agent behind the POST /chat route                             *)
(***************************************************************************)
\* chat requests a run serves after its start state
MaxChats == 2
\* chat calls already completed on session "s1" in a warm start
WarmChats == 4

SideEffectsQuestion == "What are the side effects of chemo?"
\* request.message
Messages == {SideEffectsQuestion, "hello"}
\* request.session_id: absent, or the id of an earlier response
ChatSessionArgs == {None} \cup SessionIds
\* response_body['content'][0]['text'] of the Generation Provider
Answers == {"It depends.", "Please ask your care team."}
\* what a generate_response call meets: an answer, a Bedrock client that
\* cannot be built, invoke_model raising, or an answer body without text
GenerationOutcomes == {"answer", "client_error", "invoke_error", "bad_body"}
ProviderFailures == {"invoke_error", "bad_body"}

\* the messages and answers of the calls made before a warm start
WarmQuestion(k) == "question " \o ToString(k)
WarmAnswer(k) == "answer " \o ToString(k)

\* classify_query over the messages a run can send
query_category_of == [m \in Messages \cup {WarmQuestion(k) : k \in 1..WarmChats} |->
                        classify_query(m)]

\* history[:-1]
AllButLast(s) == SubSeq(s, 1, Len(s) - 1)

\* faulty variant: the history is passed on with the current message
chat_begin_with_current(S, message, session_id, uuid, t) ==
  LET created == get_or_create_session(S, session_id, uuid, t, t)
      added == add_message(created.store, created.ret, "user", message, t)
      history == get_history(added.store, created.ret, DefaultMaxMessages)
  IN [store |-> added.store, session_id |-> created.ret,
      query_category |-> query_category_of[message],
      knowledge_sources |-> <<>>, kb_searches |-> 0,
      conversation_history |-> history]

\* faulty variant: the user message is not appended before generation
chat_begin_no_user(S, message, session_id, uuid, t) ==
  LET created == get_or_create_session(S, session_id, uuid, t, t)
      history == get_history(created.store, created.ret, DefaultMaxMessages)
  IN [store |-> created.store, session_id |-> created.ret,
      query_category |-> query_category_of[message],
      knowledge_sources |-> <<>>, kb_searches |-> 0,
      conversation_history |-> AllButLast(history)]

\* chat_with_agent up to the generate_response call: the session is found
\* or created, the user message appended, the message classified, the
\* history read; knowledge_sources is the empty list and no search is made
chat_begin(S, message, session_id, uuid, t) ==
  LET created == get_or_create_session(S, session_id, uuid, t, t)
      added == add_message(created.store, created.ret, "user", message, t)
      history == get_history(added.store, created.ret, DefaultMaxMessages)
  IN [store |-> added.store, session_id |-> created.ret,
      query_category |-> query_category_of[message],
      knowledge_sources |-> <<>>, kb_searches |-> 0,
      conversation_history |-> AllButLast(history)]

\* faulty variant: a failure is swallowed and a canned answer returned
generate_response_fallback(outcome, text, knowledge_sources) ==
  LET answer == IF outcome = "answer" THEN text ELSE "Sorry, please try again."
  IN [raised |-> FALSE,
      invocations |-> IF outcome = "client_error" THEN 0 ELSE 1,
      answer |-> answer,
      confidence |-> calculate_confidence(Len(answer), knowledge_sources)]

\* generate_response: one invoke_model call; any exception is logged and
\* raised again
generate_response(outcome, text, knowledge_sources) ==
  CASE outcome = "client_error" ->
         [raised |-> TRUE, invocations |-> 0, answer |-> None, confidence |-> 0]
    [] outcome \in ProviderFailures ->
         [raised |-> TRUE, invocations |-> 1, answer |-> None, confidence |-> 0]
    [] outcome = "answer" ->
         [raised |-> FALSE, invocations |-> 1, answer |-> text,
          confidence |-> calculate_confidence(Len(text), knowledge_sources)]

\* the SourceCitation list of the response
format_sources(include_sources, knowledge_sources) ==
  IF include_sources /\ TruthyList(knowledge_sources)
  THEN [k \in 1..Len(knowledge_sources) |-> [title |-> knowledge_sources[k].title]]
  ELSE <<>>

\* chat_with_agent after a successful generate_response: the answer is
\* appended and the ChatResponse built
chat_finish(S, session_id, generated, query_category, include_sources, knowledge_sources, t) ==
  [store |-> add_message(S, session_id, "assistant", generated.answer, t).store,
   response |-> [status |-> 200, answer |-> generated.answer,
                 session_id |-> session_id, query_category |-> query_category,
                 sources |-> format_sources(include_sources, knowledge_sources),
                 confidence_score |-> generated.confidence]]

\* the route's answer to any exception
ChatError ==
  [status |-> 500,
   detail |-> "An error occurred while processing your request. Please try again."]

\* faulty variant: a failed call takes its user message back
chat_complete_rollback(S, session_id, generated, query_category, include_sources, knowledge_sources, t) ==
  IF generated.raised
  THEN [store |-> IF session_id \in DOMAIN S
                  THEN [S EXCEPT ![session_id].messages = AllButLast(@)]
                  ELSE S,
        response |-> ChatError]
  ELSE chat_finish(S, session_id, generated, query_category, include_sources,
                   knowledge_sources, t)

\* chat_with_agent and the route after generate_response ended: an
\* exception goes to the route, which answers 500, and nothing is undone;
\* otherwise the call finishes
chat_complete(S, session_id, generated, query_category, include_sources, knowledge_sources, t) ==
  IF generated.raised
  THEN [store |-> S, response |-> ChatError]
  ELSE chat_finish(S, session_id, generated, query_category, include_sources,
                   knowledge_sources, t)

\* no chat request is being served
ChatIdle ==
  [pc |-> "idle", served |-> 0, message |-> None, session_arg |-> None,
   include_sources |-> TRUE, created |-> FALSE, session_id |-> None,
   query_category |-> None, knowledge_sources |-> <<>>, kb_searches |-> 0,
   conversation_history |-> <<>>, outcome |-> None, invocations |-> 0,
   stored_before |-> <<>>, stored_at_call |-> <<>>, out |-> [status |-> 0]]

\* a completed chat call as the history variable records it
Turn(message, answer, ok) == [message |-> message, answer |-> answer, ok |-> ok]

RECURSIVE WarmChatStore(_)
\* the store after k successful chat calls on session "s1"
WarmChatStore(k) ==
  IF k = 0
  THEN EmptySessions
  ELSE LET begun == chat_begin(WarmChatStore(k - 1), WarmQuestion(k), "s1", "u1", 0)
           generated == generate_response("answer", WarmAnswer(k),
                                          begun.knowledge_sources)
       IN chat_finish(begun.store, begun.session_id, generated,
                      begun.query_category, TRUE, begun.knowledge_sources, 0).store

\* A run starts at process start or after WarmChats chat calls on "s1".
InitChat ==
  /\ \/ /\ sessions = EmptySessions
        /\ turns = EmptySessions
     \/ /\ sessions = WarmChatStore(WarmChats)
        /\ turns = [s \in {"s1"} |->
                      [k \in 1..WarmChats |-> Turn(WarmQuestion(k), WarmAnswer(k), TRUE)]]
  /\ chat = ChatIdle
  /\ now = 0 /\ call = NoCall /\ appends = 0 /\ log = EmptySessions
  /\ query = "" /\ category = None
  /\ conf = NoConf /\ srch = NoSearch
  /\ http = NoHttp /\ clients = NoClients /\ loop = NoLoop

\* POST /chat arrives and chat_with_agent runs up to the provider call
ChatStart(message, session_arg, include_sources) ==
  /\ chat.pc \in {"idle", "done"}
  /\ chat.served < MaxChats
  /\ \E uuid \in UUIDs :
       /\ Truthy(session_arg) \/ uuid \notin DOMAIN sessions
       /\ \E begun \in {chat_begin(sessions, message, session_arg, uuid, now)} :
          LET created == begun.session_id \notin DOMAIN sessions
          IN /\ sessions' = begun.store
             /\ turns' = IF created THEN Put(turns, begun.session_id, <<>>) ELSE turns
             /\ chat' = [ChatIdle EXCEPT
                  !.pc = "generating", !.served = chat.served + 1,
                  !.message = message, !.session_arg = session_arg,
                  !.include_sources = include_sources, !.created = created,
                  !.session_id = begun.session_id,
                  !.query_category = begun.query_category,
                  !.knowledge_sources = begun.knowledge_sources,
                  !.kb_searches = begun.kb_searches,
                  !.conversation_history = begun.conversation_history,
                  !.stored_before = IF created THEN <<>>
                                    ELSE sessions[begun.session_id].messages,
                  !.stored_at_call = begun.store[begun.session_id].messages]
  /\ UNCHANGED <<now, call, log, appends, classifyVars, confVars, searchVars,
               sysVars>>

\* generate_response ends, with an answer or an exception, and the call and
\* the route finish
ChatGenerate(outcome, text) ==
  /\ chat.pc = "generating"
  /\ LET generated == generate_response(outcome, text, chat.knowledge_sources)
         finished == chat_complete(sessions, chat.session_id, generated,
                                   chat.query_category, chat.include_sources,
                                   chat.knowledge_sources, now)
     IN /\ sessions' = finished.store
        /\ chat' = [chat EXCEPT
             !.pc = "done", !.outcome = outcome,
             !.invocations = generated.invocations,
             !.out = finished.response]
        /\ turns' = [turns EXCEPT ![chat.session_id] =
                       Append(@, Turn(chat.message, generated.answer,
                                      ~generated.raised))]
  /\ UNCHANGED <<now, call, log, appends, classifyVars, confVars, searchVars,
               sysVars>>

\* DELETE /chat/session/{session_id} between two chat requests
ChatClearSession(session_id) ==
  /\ chat.pc \in {"idle", "done"}
  /\ sessions' = clear_session(sessions, session_id).store
  /\ turns' = Remove(turns, session_id)
  /\ UNCHANGED <<chat, now, call, log, appends, classifyVars, confVars,
               searchVars, sysVars>>

NextChat ==
  \/ \E message \in Messages, session_arg \in ChatSessionArgs,
        include_sources \in BOOLEAN :
       ChatStart(message, session_arg, include_sources)
  \/ \E outcome \in GenerationOutcomes, text \in Answers : ChatGenerate(outcome, text)
  \/ \E session_id \in SessionIds : ChatClearSession(session_id)

SpecChat == InitChat /\ [][NextChat]_vars

(***************************************************************************)
(* KnowledgeBaseService.delete_document and                                *)
(* DELETE /knowledge/document/{document_id}                                 *)
(***************************************************************************)
\* requests to one endpoint a run serves after its start state
MaxRequests == 3

\* ids of the documents the Document Index can hold
IndexedIds == {"d1", "d2", "d3"}
\* document_id path parameters: an id the index can hold, or one it never has
DocumentIdArgs == IndexedIds \cup {"d9"}
\* what stands between the service and the index: nothing, an OpenSearch
\* client that cannot be built, or an index call failing in transport
IndexFaults == {"none", "client_error", "index_error"}

\* KnowledgeBaseService.delete_document: True after client.delete went
\* through; False for any exception (the client's NotFoundError for an
\* absent id, a client that cannot be built, a transport error)
kb_delete_document(index, document_id, fault) ==
  CASE fault = "none" /\ document_id \in index ->
         [index |-> index \ {document_id}, ret |-> TRUE, raised |-> FALSE]
    [] fault = "none" /\ document_id \notin index ->
         [index |-> index, ret |-> FALSE, raised |-> FALSE]
    [] fault \in {"client_error", "index_error"} ->
         [index |-> index, ret |-> FALSE, raised |-> FALSE]

\* the route: 200 on success, 404 otherwise, 500 for any other exception
delete_document_route(document_id, deleted) ==
  CASE deleted.raised ->
         [status |-> 500, detail |-> "Error deleting document"]
    [] ~deleted.raised /\ deleted.ret ->
         [status |-> 200, message |-> "Document deleted successfully",
          document_id |-> document_id]
    [] ~deleted.raised /\ ~deleted.ret ->
         [status |-> 404, detail |-> "Document not found"]

\* the other variables of a run of one endpoint
IdleBut(v) ==
  /\ sessions = EmptySessions /\ log = EmptySessions /\ turns = EmptySessions
  /\ now = 0 /\ call = NoCall /\ appends = 0
  /\ query = "" /\ category = None
  /\ conf = NoConf /\ srch = NoSearch /\ chat = NoChat
  /\ ("http" \in v \/ http = NoHttp)
  /\ ("clients" \in v \/ clients = NoClients)
  /\ ("loop" \in v \/ loop = NoLoop)

\* The index holds any of the documents; no request has been served.
InitDelete ==
  /\ \E index \in SUBSET IndexedIds :
       http = [pc |-> "idle", served |-> 0, index |-> index,
               index_before |-> index, document_id |-> None,
               fault |-> "none", out |-> [status |-> 0]]
  /\ IdleBut({"http"})

\* DELETE /knowledge/document/{document_id} is served
DeleteDocument(document_id, fault) ==
  /\ http.served < MaxRequests
  /\ LET deleted == kb_delete_document(http.index, document_id, fault)
     IN http' = [pc |-> "done", served |-> http.served + 1,
                 index |-> deleted.index, index_before |-> http.index,
                 document_id |-> document_id, fault |-> fault,
                 out |-> delete_document_route(document_id, deleted)]
  /\ UNCHANGED <<storeVars, classifyVars, confVars, searchVars, chatVars,
                 clients, loop>>

NextDelete ==
  \E document_id \in DocumentIdArgs, fault \in IndexFaults :
    DeleteDocument(document_id, fault)

SpecDelete == InitDelete /\ [][NextDelete]_vars

(***************************************************************************)
(* The lazily built provider clients (config/aws.py) and GET /health       *)
(***************************************************************************)
\* bedrock(), opensearch(), s3()
Accessors == {"bedrock", "opensearch", "s3"}
\* str(e) of the exceptions a provider or the index can raise
ExceptionTexts == {"Unable to locate credentials", "Connection refused"}
\* what building a client does: it succeeds, or raises with a text
BuildOutcomes == {"ok"} \cup ExceptionTexts
\* cluster.health(): the status it reports, or the text it raises with
ClusterOutcomes == {"green", "yellow", "red"} \cup ExceptionTexts

\* _bedrock_client = None, _opensearch_client = None, _s3_client = None,
\* with the number of clients built and of calls that tried to build one
ClientsUnset ==
  [handle |-> [a \in Accessors |-> None],
   built |-> [a \in Accessors |-> 0],
   attempts |-> [a \in Accessors |-> 0]]

\* the client the n-th successful construction returns
Handle(name, n) == name \o "#" \o ToString(n)

\* faulty variant: a client is built on every call
accessor_rebuild(C, name, outcome) ==
  IF outcome = "ok"
  THEN LET h == Handle(name, C.built[name] + 1)
       IN [clients |-> [C EXCEPT !.handle[name] = h,
                                 !.built[name] = @ + 1,
                                 !.attempts[name] = @ + 1],
           ret |-> h, exc |-> None]
  ELSE [clients |-> [C EXCEPT !.attempts[name] = @ + 1],
        ret |-> None, exc |-> outcome]

\* bedrock(), opensearch(), s3(): the global is set by the first
\* construction that succeeds; outcome says what a construction does
accessor(C, name, outcome) ==
  IF C.handle[name] # None
  THEN [clients |-> C, ret |-> C.handle[name], exc |-> None]
  ELSE IF outcome = "ok"
       THEN LET h == Handle(name, C.built[name] + 1)
            IN [clients |-> [C EXCEPT !.handle[name] = h,
                                      !.built[name] = @ + 1,
                                      !.attempts[name] = @ + 1],
                ret |-> h, exc |-> None]
       ELSE [clients |-> [C EXCEPT !.attempts[name] = @ + 1],
             ret |-> None, exc |-> outcome]

\* ServiceHealth
ServiceHealth(name, status, message) ==
  [name |-> name, status |-> status, message |-> message]

\* the OpenSearch block of health_check: the entry appended and whether the
\* except branch ran
opensearch_entry(got, cluster) ==
  IF got.exc # None
  THEN [entry |-> ServiceHealth("opensearch", "unhealthy", got.exc), raised |-> TRUE]
  ELSE IF cluster \in ExceptionTexts
       THEN [entry |-> ServiceHealth("opensearch", "unhealthy", cluster),
             raised |-> TRUE]
       ELSE [entry |-> ServiceHealth("opensearch",
                                     IF cluster # "red" THEN "healthy" ELSE "unhealthy",
                                     "Cluster status: " \o cluster),
             raised |-> FALSE]

\* the Bedrock and S3 blocks of health_check
client_entry(name, got, message) ==
  IF got.exc # None
  THEN [entry |-> ServiceHealth(name, "unhealthy", got.exc), raised |-> TRUE]
  ELSE [entry |-> ServiceHealth(name, "healthy", message), raised |-> FALSE]

\* health_check: overall_status starts healthy and becomes degraded in each
\* except branch
health_check(C, bedrock_outcome, opensearch_outcome, cluster, s3_outcome) ==
  LET got_b == accessor(C, "bedrock", bedrock_outcome)
      entry_b == client_entry("bedrock", got_b, "Bedrock client initialized")
      got_o == accessor(got_b.clients, "opensearch", opensearch_outcome)
      entry_o == opensearch_entry(got_o, cluster)
      got_s == accessor(got_o.clients, "s3", s3_outcome)
      entry_s == client_entry("s3", got_s, "S3 client initialized")
      status1 == IF entry_b.raised THEN "degraded" ELSE "healthy"
      status2 == IF entry_o.raised THEN "degraded" ELSE status1
      status3 == IF entry_s.raised THEN "degraded" ELSE status2
  IN [clients |-> got_s.clients,
      response |-> [status |-> status3, version |-> "1.0.0",
                    services |-> <<entry_b.entry, entry_o.entry, entry_s.entry>>]]

\* The process has started: no client is built, no request served.
InitHealth ==
  /\ clients = ClientsUnset
  /\ http = [pc |-> "idle", served |-> 0, endpoint |-> None, name |-> None,
             was_set |-> FALSE, ret |-> None, exc |-> None,
             response |-> [status |-> None, services |-> <<>>]]
  /\ IdleBut({"http", "clients"})

\* some request handler calls bedrock(), opensearch() or s3()
CallAccessor(name, outcome) ==
  /\ http.served < MaxRequests
  /\ \E got \in {accessor(clients, name, outcome)} :
       /\ clients' = got.clients
       /\ http' = [http EXCEPT !.pc = "done", !.served = @ + 1,
                               !.endpoint = "accessor", !.name = name,
                               !.was_set = clients.handle[name] # None,
                               !.ret = got.ret, !.exc = got.exc]
  /\ UNCHANGED <<storeVars, classifyVars, confVars, searchVars, chatVars, loop>>

\* GET /health is served
HealthCheck(bedrock_outcome, opensearch_outcome, cluster, s3_outcome) ==
  /\ http.served < MaxRequests
  /\ \E checked \in {health_check(clients, bedrock_outcome, opensearch_outcome,
                                  cluster, s3_outcome)} :
       /\ clients' = checked.clients
       /\ http' = [http EXCEPT !.pc = "done", !.served = @ + 1,
                               !.endpoint = "health", !.name = None,
                               !.was_set = FALSE, !.ret = None, !.exc = None,
                               !.response = checked.response]
  /\ UNCHANGED <<storeVars, classifyVars, confVars, searchVars, chatVars, loop>>

NextHealth ==
  \/ \E name \in Accessors, outcome \in BuildOutcomes : CallAccessor(name, outcome)
  \/ \E b \in BuildOutcomes, o \in BuildOutcomes, c \in ClusterOutcomes,
        s \in BuildOutcomes : HealthCheck(b, o, c, s)

SpecHealth == InitHealth /\ [][NextHealth]_vars

(***************************************************************************)
(* What the endpoints send to the client when a provider or the index      *)
(* fails: two runs of one request that differ in the exception text        *)
(***************************************************************************)
\* the endpoints and the place in each where an exception is raised
FailureSites ==
  {<<"chat", "generation">>, <<"search", "embedding">>, <<"search", "index">>,
   <<"add_document", "embedding">>, <<"add_document", "index">>,
   <<"delete_document", "index">>, <<"stats", "index">>,
   <<"health", "bedrock">>, <<"health", "opensearch">>, <<"health", "cluster">>,
   <<"health", "s3">>, <<"unhandled", "handler">>}

\* KnowledgeBaseService.get_stats when the index call raises: the exception
\* is logged and its text returned in the dict
get_stats_failed(text) ==
  [ret |-> [index_name |-> "knowledge", status |-> "error", error |-> text],
   logged |-> "Error getting stats: " \o text]

\* global_exception_handler
global_exception_handler(text, t) ==
  [payload |-> [status |-> 500, error |-> "Internal server error",
                message |-> "An unexpected error occurred. Please try again.",
                timestamp |-> isoformat(t)],
   logged |-> "Unhandled exception: " \o text]

\* what the client receives, and what is logged, when the request to the
\* endpoint meets an exception with this text at this site
failure_response(endpoint, site, text) ==
  CASE endpoint = "chat" ->
         [payload |-> ChatError, logged |-> "Chat error: " \o text]
    [] endpoint = "search" ->
         [payload |-> [status |-> 500, detail |-> "Error searching knowledge base"],
          logged |-> IF site = "embedding"
                     THEN "Error creating embedding: " \o text
                     ELSE "Knowledge search error: " \o text]
    [] endpoint = "add_document" ->
         [payload |-> [status |-> 500,
                       detail |-> "Error adding document to knowledge base"],
          logged |-> IF site = "embedding"
                     THEN "Error creating embedding: " \o text
                     ELSE "Document upload error: " \o text]
    [] endpoint = "delete_document" ->
         [payload |-> delete_document_route("d1",
                        kb_delete_document({"d1"}, "d1", "index_error")),
          logged |-> "Error deleting document: " \o text]
    [] endpoint = "stats" ->
         [payload |-> [status |-> 200, body |-> get_stats_failed(text).ret],
          logged |-> get_stats_failed(text).logged]
    [] endpoint = "health" ->
         [payload |->
            [status |-> 200,
             body |-> health_check(ClientsUnset,
                        IF site = "bedrock" THEN text ELSE "ok",
                        IF site = "opensearch" THEN text ELSE "ok",
                        IF site = "cluster" THEN text ELSE "green",
                        IF site = "s3" THEN text ELSE "ok").response],
          logged |-> ""]
    [] endpoint = "unhandled" ->
         global_exception_handler(text, 0)

Runs == {1, 2}

\* One request is sent in two runs; the same place fails in both, with
\* exception texts that may differ.
InitErrors ==
  /\ \E fs \in FailureSites, texts \in [Runs -> ExceptionTexts] :
       http = [pc |-> [r \in Runs |-> "failing"], endpoint |-> fs[1],
               site |-> fs[2], text |-> texts,
               out |-> [r \in Runs |-> [status |-> 0]],
               logged |-> [r \in Runs |-> ""]]
  /\ IdleBut({"http"})

\* the endpoint answers in run r
FailureResponds(r) ==
  /\ http.pc[r] = "failing"
  /\ \E answered \in {failure_response(http.endpoint, http.site, http.text[r])} :
       http' = [http EXCEPT !.pc[r] = "done", !.out[r] = answered.payload,
                            !.logged[r] = answered.logged]
  /\ UNCHANGED <<storeVars, classifyVars, confVars, searchVars, chatVars,
                 clients, loop>>

NextErrors == \E r \in Runs : FailureResponds(r)

SpecErrors == InitErrors /\ [][NextErrors]_vars

(***************************************************************************)
(* Concurrent requests on the event loop of the process (uvicorn.run with  *)
(* one worker): every handler is a coroutine of the loop's single thread,  *)
(* and the provider and index clients are called synchronously             *)
(***************************************************************************)
\* the requests in flight: two POST /chat on session "s1", a
\* DELETE /chat/session/s1 and a POST /knowledge/search
Tasks == {"A", "B", "X", "Q"}
TaskKind == [A |-> "chat", B |-> "chat", X |-> "clear", Q |-> "search"]
ChatTasks == {t \in Tasks : TaskKind[t] = "chat"}
TaskMessage == [A |-> "hello", B |-> SideEffectsQuestion]
TaskAnswer == [A |-> "It depends.", B |-> "Please ask your care team."]
\* a blocking call returns or raises
CallOutcomes == {"ok", "error"}

\* a request that has not arrived
TaskIdle ==
  [pc |-> "none", session_id |-> None, query_category |-> None, calls |-> 0,
   out |-> [status |-> 0]]

\* No request has arrived; the store is empty or holds "s1" after one chat
\* call.
InitLoop ==
  /\ loop = [running |-> None, task |-> [t \in Tasks |-> TaskIdle]]
  /\ \/ /\ sessions = EmptySessions
        /\ turns = EmptySessions
     \/ /\ sessions = WarmChatStore(1)
        /\ turns = [s \in {"s1"} |-> <<Turn(WarmQuestion(1), WarmAnswer(1), TRUE)>>]
  /\ now = 0 /\ call = NoCall /\ appends = 0 /\ log = EmptySessions
  /\ query = "" /\ category = None
  /\ conf = NoConf /\ srch = NoSearch /\ chat = NoChat
  /\ http = NoHttp /\ clients = NoClients

\* a request arrives and its handler is scheduled on the loop
Arrive(t) ==
  /\ loop.task[t].pc = "none"
  /\ loop' = [loop EXCEPT !.task[t].pc = "pending"]
  /\ UNCHANGED <<sessions, turns>>

\* the loop picks a chat handler: chat_with_agent runs up to invoke_model,
\* which blocks the loop's thread
ChatTaskRuns(t) ==
  /\ TaskKind[t] = "chat"
  /\ loop.running = None
  /\ loop.task[t].pc = "pending"
  /\ \E begun \in {chat_begin(sessions, TaskMessage[t], "s1", "u1", now)} :
       /\ sessions' = begun.store
       /\ turns' = IF begun.session_id \notin DOMAIN sessions
                   THEN Put(turns, begun.session_id, <<>>) ELSE turns
       /\ loop' = [loop EXCEPT !.running = t,
                               !.task[t].pc = "in_call",
                               !.task[t].session_id = begun.session_id,
                               !.task[t].query_category = begun.query_category,
                               !.task[t].calls = 1]

\* invoke_model returns or raises; the handler runs on to its end without
\* reaching a suspension point
ChatTaskReturns(t, outcome) ==
  /\ TaskKind[t] = "chat"
  /\ loop.running = t
  /\ loop.task[t].pc = "in_call"
  /\ LET generated == generate_response(IF outcome = "ok" THEN "answer"
                                        ELSE "invoke_error", TaskAnswer[t], <<>>)
         finished == chat_complete(sessions, loop.task[t].session_id, generated,
                                   loop.task[t].query_category, TRUE, <<>>, now)
     IN /\ sessions' = finished.store
        /\ turns' = IF loop.task[t].session_id \in DOMAIN turns
                    THEN [turns EXCEPT ![loop.task[t].session_id] =
                            Append(@, Turn(TaskMessage[t], generated.answer,
                                           ~generated.raised))]
                    ELSE turns
        /\ loop' = [loop EXCEPT !.running = None, !.task[t].pc = "done",
                                !.task[t].out = finished.response]

\* the loop picks the clear_session handler, which has no blocking call
ClearTaskRuns(t) ==
  /\ TaskKind[t] = "clear"
  /\ loop.running = None
  /\ loop.task[t].pc = "pending"
  /\ sessions' = clear_session(sessions, "s1").store
  /\ turns' = Remove(turns, "s1")
  /\ loop' = [loop EXCEPT !.task[t].pc = "done",
                          !.task[t].session_id = "s1",
                          !.task[t].out = [status |-> 200,
                                           message |-> "Session cleared successfully",
                                           session_id |-> "s1"]]

\* the loop picks the search handler: search runs up to create_embedding,
\* which blocks the loop's thread in the Embedding Provider call
SearchTaskRuns(t) ==
  /\ TaskKind[t] = "search"
  /\ loop.running = None
  /\ loop.task[t].pc = "pending"
  /\ loop' = [loop EXCEPT !.running = t, !.task[t].pc = "in_call",
                          !.task[t].calls = 1]
  /\ UNCHANGED <<sessions, turns>>

\* a blocking call of search ends: after the embedding the index query
\* blocks in turn; after a failure or the index answer the handler ends
SearchTaskReturns(t, outcome) ==
  /\ TaskKind[t] = "search"
  /\ loop.running = t
  /\ loop.task[t].pc = "in_call"
  /\ loop' = IF outcome = "ok" /\ loop.task[t].calls = 1
             THEN [loop EXCEPT !.task[t].calls = 2]
             ELSE [loop EXCEPT
                     !.running = None, !.task[t].pc = "done",
                     !.task[t].out =
                       IF outcome = "ok"
                       THEN [status |-> 200]
                       ELSE [status |-> 500,
                             detail |-> "Error searching knowledge base"]]
  /\ UNCHANGED <<sessions, turns>>

\* a step of the handler of request t
TaskStep(t) ==
  \/ ChatTaskRuns(t)
  \/ \E outcome \in CallOutcomes : ChatTaskReturns(t, outcome)
  \/ ClearTaskRuns(t)
  \/ SearchTaskRuns(t)
  \/ \E outcome \in CallOutcomes : SearchTaskReturns(t, outcome)

NextLoop ==
  /\ \E t \in Tasks : Arrive(t) \/ TaskStep(t)
  /\ UNCHANGED <<now, call, log, appends, classifyVars, confVars, searchVars,
                 chat, http, clients>>

SpecLoop == InitLoop /\ [][NextLoop]_vars

(***************************************************************************)
(* Properties of the session store                                         *)
(***************************************************************************)
\* the last n elements of s, oldest first (n <= Len(s))
LastN(s, n) == [i \in 1..n |-> s[Len(s) - n + i]]

\* C1: every stored session holds at most 10 messages, in every reachable
\* state of the store.
C1_HistoryBounded ==
  \A sid \in DOMAIN sessions : Len(sessions[sid].messages) <= 10

\* an add_message call has just evicted: more than 10 messages were appended
\* to the session and it holds exactly 10
C1_Witness ==
  /\ call.op = "add_message"
  /\ call.sid \in DOMAIN sessions
  /\ Len(log[call.sid]) > 10
  /\ Len(sessions[call.sid].messages) = 10

\* C2: a session that received n add_message calls since its creation stores
\* exactly the last min(n, 10) appended messages, in append order.
C2_LastAppendedKept ==
  \A sid \in DOMAIN sessions :
    sessions[sid].messages = LastN(log[sid], Min(Len(log[sid]), 10))

\* eviction has happened and the evicted message differs from the newest one
C2_Witness ==
  /\ call.op = "add_message"
  /\ call.sid \in DOMAIN sessions
  /\ Len(log[call.sid]) > 10
  /\ log[call.sid][1] # log[call.sid][Len(log[call.sid])]
  /\ sessions[call.sid].messages[10] = log[call.sid][Len(log[call.sid])]

\* C3 as stated: after more than 10 appends, get_history without a
\* max_messages argument returns the last 10 appended messages.
C3_DefaultReturnsLastTen ==
  (/\ call.op = "get_history"
   /\ call.defaulted
   /\ call.sid \in DOMAIN sessions
   /\ Len(log[call.sid]) > 10)
  => call.retHist = LastN(log[call.sid], 10)

\* C3 amended: after more than 10 appends, get_history without a
\* max_messages argument returns the last 5 appended messages (the default
\* max_messages), in append order.
C3_DefaultReturnsLastFive ==
  (/\ call.op = "get_history"
   /\ call.defaulted
   /\ call.sid \in DOMAIN sessions
   /\ Len(log[call.sid]) > 10)
  => call.retHist = LastN(log[call.sid], 5)

\* get_history() was called without a cap on a session that has evicted
C3_Witness ==
  /\ call.op = "get_history"
  /\ call.defaulted
  /\ call.sid \in DOMAIN sessions
  /\ Len(log[call.sid]) > 10
  /\ Len(call.retHist) = 5

\* C4: get_history(session, max_messages) with max_messages >= 0 returns the
\* last min(max_messages, stored length) stored messages, oldest first, and
\* the empty sequence for an unknown session.
C4_HistoryIsLastMax ==
  (call.op = "get_history" /\ call.cap >= 0)
  => IF call.sid \in DOMAIN sessions
     THEN LET msgs == sessions[call.sid].messages
          IN call.retHist = LastN(msgs, Min(call.cap, Len(msgs)))
     ELSE call.retHist = <<>>

\* C5: get_or_create_session with an id that is not in the store (a
\* non-empty unknown id, "" or None) adds exactly one session, with empty
\* history, and returns its id: the supplied id when it is non-empty, else
\* an id that was no key of the store; get_or_create_session with an id in
\* the store returns that id and adds no session.
C5_CreateWhenUnknown ==
  [][\A sid \in SessionArgs :
       GetOrCreateSession(sid) =>
         LET id == call'.retId
         IN IF sid \notin DOMAIN sessions
            THEN /\ id \notin DOMAIN sessions
                 /\ Truthy(sid) => id = sid
                 /\ DOMAIN sessions' = DOMAIN sessions \cup {id}
                 /\ sessions'[id].messages = <<>>
                 /\ \A u \in UUIDs, t \in 0..MaxTime :
                      LET again == get_or_create_session(sessions', id, u, t, t)
                      IN /\ again.ret = id
                         /\ DOMAIN again.store = DOMAIN sessions'
            ELSE /\ id = sid
                 /\ DOMAIN sessions' = DOMAIN sessions]_vars

\* a session was minted for a call without id while another session exists
C5_Witness ==
  /\ call.op = "get_or_create_session"
  /\ call.sid = None
  /\ call.retId \in DOMAIN sessions
  /\ sessions[call.retId].messages = <<>>
  /\ Cardinality(DOMAIN sessions) = 2

\* C6: get_or_create_session with an id that is in the store changes only
\* that session's last_active: its messages, its created_at, its user_id and
\* every other session are unchanged, and the id is returned.
C6_RefreshOnlyLastActive ==
  [][\A sid \in SessionArgs :
       (GetOrCreateSession(sid) /\ sid \in DOMAIN sessions) =>
         /\ call'.retId = sid
         /\ DOMAIN sessions' = DOMAIN sessions
         /\ \A k \in DOMAIN sessions :
              sessions'[k] =
                IF k = sid
                THEN [sessions[k] EXCEPT !.last_active = sessions'[k].last_active]
                ELSE sessions[k]]_vars

\* a session with messages was refreshed after it was created
C6_Witness ==
  /\ call.op = "get_or_create_session"
  /\ call.sid \in DOMAIN sessions
  /\ sessions[call.sid].messages # <<>>
  /\ sessions[call.sid].last_active > sessions[call.sid].created_at
  /\ Cardinality(DOMAIN sessions) = 2

\* C7: add_message with a session id that is not in the store raises
\* nothing and leaves the session map unchanged.
C7_AppendUnknownIsNoOp ==
  [][\A sid \in SessionIds, role \in Roles, content \in Contents :
       (AddMessage(sid, role, content) /\ sid \notin DOMAIN sessions) =>
         /\ sessions' = sessions
         /\ ~call'.raised]_vars

\* add_message was called for an id the (non-empty) store does not hold
C7_Witness ==
  /\ call.op = "add_message"
  /\ call.sid \notin DOMAIN sessions
  /\ DOMAIN sessions # {}

\* C8: clear_session(id) raises nothing; afterwards the store has no session
\* under id, get_history(id) is empty, and a second clear_session(id) leaves
\* the store as it is.
C8_ClearIdempotent ==
  call.op = "clear_session" =>
    /\ ~call.raised
    /\ call.sid \notin DOMAIN sessions
    /\ get_history(sessions, call.sid, DefaultMaxMessages) = <<>>
    /\ \A m \in 0..MaxCap : get_history(sessions, call.sid, m) = <<>>
    /\ clear_session(sessions, call.sid).store = sessions
    /\ ~clear_session(sessions, call.sid).raised

\* clear_session has run while another session, with messages, is stored
C8_Witness ==
  /\ call.op = "clear_session"
  /\ call.sid = "u1"
  /\ "s1" \in DOMAIN sessions
  /\ sessions["s1"].messages # <<>>

(***************************************************************************)
(* Properties of classify_query                                            *)
(***************************************************************************)
\* number of keywords of category c that occur in the lower-cased query
MatchCount(c) ==
  Cardinality({k \in 1..Len(QUERY_CATEGORIES[c].keywords) :
                 Contains(QUERY_CATEGORIES[c].keywords[k], str_lower(query))})

Categories == 1..Len(QUERY_CATEGORIES)

\* C9: classify_query returns the category with the maximal keyword-match
\* count, the first declared among those that share it, and general when
\* every count is 0.
C9_FirstMaximalCategory ==
  category # None =>
    IF \A c \in Categories : MatchCount(c) = 0
    THEN category = GENERAL
    ELSE \E c \in Categories :
           /\ category = QUERY_CATEGORIES[c].name
           /\ \A d \in Categories : MatchCount(d) <= MatchCount(c)
           /\ \A d \in Categories : d < c => MatchCount(d) < MatchCount(c)

\* a tie was broken: two categories share the maximal count and the one
\* declared first was returned
C9_Witness ==
  /\ category = "treatment"
  /\ MatchCount(2) = 1
  /\ MatchCount(7) = 1
  /\ \A d \in Categories : MatchCount(d) <= 1

\* C10 as stated: every text that contains "lump" (case-insensitively) is
\* classified as symptoms.
C10_LumpIsSymptoms ==
  (category # None /\ Contains("lump", str_lower(query)))
  => category = "symptoms"

\* C10 amended: a text that contains "lump" (case-insensitively) is classified
\* as symptoms exactly when no other category has strictly more keyword
\* matches than symptoms, and it is never classified as general.
C10_LumpIsSymptomsUnlessOutnumbered ==
  (category # None /\ Contains("lump", str_lower(query)))
  => /\ category # GENERAL
     /\ category = "symptoms" <=>
          \A d \in Categories : MatchCount(d) <= MatchCount(1)

\* a text with "lump" in it and as many treatment as symptoms keywords was
\* classified as symptoms
C10_Witness ==
  /\ category = "symptoms"
  /\ Contains("lump", str_lower(query))
  /\ MatchCount(2) = MatchCount(1)

(***************************************************************************)
(* Properties of _calculate_confidence                                     *)
(***************************************************************************)
\* C12: for every answer length and every list of sources (absent, empty or
\* non-empty) the confidence returned lies between 0.70 and 0.95 (70 and 95
\* hundredths).
C12_ConfidenceInRange ==
  conf.pc = "returned" => (conf.confidence >= 70 /\ conf.confidence <= 95)

\* a long answer without sources was scored, above the base value
C12_Witness ==
  /\ conf.pc = "returned"
  /\ conf.answer_len > 500
  /\ conf.sources = NoList
  /\ conf.confidence = 75

(***************************************************************************)
(* Properties of the knowledge base search                                 *)
(***************************************************************************)
\* search has returned normally (to its caller, which may have answered since)
SearchReturned ==
  \/ srch.pc = "returned"
  \/ srch.pc = "done" /\ srch.index = "answered"
        /\ ~parse_hits(srch.hits, srch.limit, 1, {}, <<>>).raised

\* C13: the result list of a search contains each document id at most once
C13_ResultsDistinct ==
  SearchReturned =>
    \A i, j \in 1..Len(srch.results) :
      srch.results[i].document_id = srch.results[j].document_id => i = j

\* C13 witness: the index returned two hits of one document and the search
\* returned a result list
C13_Witness ==
  /\ SearchReturned
  /\ \E i, j \in 1..Len(srch.hits) :
       i # j /\ hit_doc_id(srch.hits[i]) = hit_doc_id(srch.hits[j])
  /\ Len(srch.results) = 2

\* positions of the hits that are the first of their document
FirstOccurrences(hits) ==
  {i \in 1..Len(hits) : \A j \in 1..(i - 1) : hit_doc_id(hits[j]) # hit_doc_id(hits[i])}

\* the k-th smallest element of a set of positions
Nth(P, k) == CHOOSE i \in P : Cardinality({j \in P : j <= i}) = k

\* C14: the result list is the first `limit` distinct documents in engine
\* order, each taken from its first hit; it is never longer than limit and
\* total_results is its length
C14_FirstLimitDistinct ==
  SearchReturned =>
    LET P == FirstOccurrences(srch.hits)
        n == Min(srch.limit, Cardinality(P))
    IN /\ Len(srch.results) = n
       /\ \A k \in 1..n :
            /\ srch.results[k].document_id = hit_doc_id(srch.hits[Nth(P, k)])
            /\ srch.results[k].relevance_score = srch.hits[Nth(P, k)]._score
       /\ Len(srch.results) <= srch.limit
       /\ srch.total_results = Len(srch.results)

\* C14 witness: more distinct documents were hit than limit, after a duplicate
C14_Witness ==
  /\ SearchReturned
  /\ srch.limit = 1
  /\ Len(srch.hits) = 3
  /\ hit_doc_id(srch.hits[1]) = hit_doc_id(srch.hits[2])
  /\ hit_doc_id(srch.hits[3]) # hit_doc_id(srch.hits[1])
  /\ Len(srch.results) = 1

\* C15: when the embedding fails or is None or empty, search raises without
\* querying the index and returns no result list, and the route answers 500
C15_NoEmbeddingNoQuery ==
  srch.embedding \in {"no_field", "error"} =>
    /\ srch.index_calls = 0
    /\ srch.pc \in {"raised", "done"}
    /\ ~SearchReturned
    /\ (srch.pc = "done" /\ srch.caller = "route") =>
         (srch.out.kind = "error" /\ srch.out.status = 500)

\* C15 witness: the provider answered without an embedding and the route
\* has answered
C15_Witness ==
  /\ srch.embedding = "no_field"
  /\ srch.caller = "route"
  /\ srch.pc = "done"
  /\ srch.out.status = 500

\* the embedding or the index query of this retrieval call failed
RetrievalFailed ==
  \/ srch.embedding \in {"no_field", "error"}
  \/ srch.index = "error"

\* C16: no retrieval operation answers with an empty result when the
\* embedding or the index query failed; every failure is surfaced as an error
C16_FailureSurfaced ==
  (srch.pc = "done" /\ RetrievalFailed) => srch.out.kind = "error"

\* C17: a service constructed with use_vectors = False does not call the
\* Embedding Provider, sends a keyword-only query with the same filters, and
\* succeeds whenever the index query succeeds
C17_KeywordOnlyWithoutVectors ==
  ~srch.use_vectors =>
    /\ srch.embed_calls = 0
    /\ \A q \in {srch.sent[i] : i \in 1..Len(srch.sent)} :
         /\ \A c \in {q.should[i] : i \in 1..Len(q.should)} : c.clause # "knn"
         /\ q.filter = build_filters(srch.category, srch.content_type)
    /\ srch.pc = "raised" => srch.index_calls = 1

(***************************************************************************)
(* Properties of chat_with_agent                                           *)
(***************************************************************************)
\* C11: a chat call with the message "What are the side effects of chemo?"
\* and no prior session is classified as side_effects
C11_SideEffectsQuestion ==
  (/\ chat.pc \in {"generating", "done"}
   /\ chat.message = SideEffectsQuestion
   /\ chat.session_arg = None)
    => chat.query_category = "side_effects"

\* C18: every chat call runs one knowledge base search with the user's
\* message before generation and hands the documents found to generation
C18_OneSearchPerChat ==
  chat.pc \in {"generating", "done"} => chat.kb_searches = 1

\* role and content of the messages stored for a session
Stored(s) ==
  [i \in 1..Len(sessions[s].messages) |->
     [role |-> sessions[s].messages[i].role,
      content |-> sessions[s].messages[i].content]]

\* user1, assistant1, user2, assistant2, ... of a sequence of chat calls
Dialogue(ts) ==
  [i \in 1..(2 * Len(ts)) |->
     IF i % 2 = 1
     THEN [role |-> "user", content |-> ts[(i + 1) \div 2].message]
     ELSE [role |-> "assistant", content |-> ts[i \div 2].answer]]

\* C19: after successful chat calls on a session, one after the other and
\* with no clear between them, the stored history is the last (at most) 10
\* of user1, assistant1, user2, assistant2, ...
C19_HistoryIsDialogueTail ==
  \A s \in DOMAIN sessions :
    (/\ ~(chat.pc = "generating" /\ chat.session_id = s)
     /\ \A k \in 1..Len(turns[s]) : turns[s][k].ok)
      => LET dialogue == Dialogue(turns[s])
         IN Stored(s) = LastN(dialogue, Min(MaxHistory, Len(dialogue)))

\* C19 witness: more than five successful calls ended on a session, the last
\* of them served by this run
C19_Witness ==
  /\ chat.pc = "done"
  /\ chat.session_id \in DOMAIN sessions
  /\ chat.out.status = 200
  /\ Len(turns[chat.session_id]) > 5
  /\ \A k \in 1..Len(turns[chat.session_id]) : turns[chat.session_id][k].ok
  /\ Len(sessions[chat.session_id].messages) = MaxHistory

\* C20: when the Generation Provider fails during a chat call, it was invoked
\* exactly once, no assistant answer is appended to the session, and the
\* route answers 500 with its fixed message
C20_ProviderFailure ==
  (chat.pc = "done" /\ chat.outcome \in ProviderFailures) =>
    /\ chat.invocations = 1
    /\ chat.session_id \in DOMAIN sessions =>
         sessions[chat.session_id].messages = chat.stored_at_call
    /\ chat.out = ChatError

\* C20 witness: invoke_model raised in a call on a session with history
C20_Witness ==
  /\ chat.pc = "done"
  /\ chat.outcome = "invoke_error"
  /\ chat.session_id \in DOMAIN sessions
  /\ Len(sessions[chat.session_id].messages) > 1
  /\ sessions[chat.session_id].messages[Len(sessions[chat.session_id].messages)].role = "user"
  /\ chat.out.status = 500

(***************************************************************************)
(* Properties of the knowledge base and health endpoints                   *)
(***************************************************************************)
\* C21: DELETE /knowledge/document/{id} answers 200 when the document existed
\* and was deleted, and 404 exactly when the document is absent from the
\* index; an index call failing for another reason is not answered with 404
C21_NotFoundOnlyWhenAbsent ==
  http.pc = "done" =>
    /\ http.out.status = 200 =>
         (http.document_id \in http.index_before
          /\ http.document_id \notin http.index)
    /\ http.out.status = 404 <=> http.document_id \notin http.index_before

\* C23: the overall status of GET /health is "healthy" if and only if all
\* three services are reported healthy; when at least one entry is
\* unhealthy, the overall status is "degraded"
C23_HealthyIffAllHealthy ==
  (http.pc = "done" /\ http.endpoint = "health") =>
    LET entries == {http.response.services[i] : i \in 1..Len(http.response.services)}
    IN /\ Len(http.response.services) = 3
       /\ http.response.status = "healthy" <=> \A s \in entries : s.status = "healthy"
       /\ (\E s \in entries : s.status = "unhealthy") =>
            http.response.status = "degraded"

\* C27: each provider accessor builds its client successfully at most once
\* per process and every later call returns that client; a construction that
\* fails leaves the global unset, so that a later call tries again
C27_ClientBuiltOnce ==
  [][/\ \A a \in Accessors :
          /\ clients'.built[a] <= 1
          /\ clients.handle[a] # None => clients'.handle[a] = clients.handle[a]
     /\ (http'.endpoint = "accessor" /\ http'.served = http.served + 1) =>
          LET a == http'.name
          IN /\ clients.handle[a] # None =>
                  (http'.ret = clients.handle[a] /\ clients' = clients)
             /\ clients.handle[a] = None =>
                  clients'.attempts[a] = clients.attempts[a] + 1
             /\ http'.exc # None => clients'.handle[a] = None
             /\ http'.exc = None => http'.ret = clients'.handle[a]]_vars

\* C27 witness: a construction failed, a later one succeeded, and a call
\* after that was handed the client built then
C27_Witness ==
  /\ http.pc = "done"
  /\ http.endpoint = "accessor"
  /\ http.was_set
  /\ clients.attempts[http.name] = 2
  /\ clients.built[http.name] = 1
  /\ http.ret = clients.handle[http.name]

\* C22: for every endpoint and every provider or index failure, two runs
\* that differ only in the text of the exception send the same payload to
\* the client
C22_PayloadIndependentOfText ==
  (\A r \in Runs : http.pc[r] = "done") => http.out[1] = http.out[2]

(***************************************************************************)
(* Properties of concurrent requests                                       *)
(***************************************************************************)
\* C24: while one chat or search request is waiting on a provider call,
\* steps of the other requests can proceed
C24_ProviderCallDoesNotBlock ==
  \A a \in Tasks, b \in Tasks :
    (a # b /\ loop.task[a].pc = "in_call" /\ loop.task[b].pc = "pending")
      => ENABLED TaskStep(b)

\* C25: two chat requests running concurrently against one session can
\* interleave their history appends, nothing serialising the two appends of
\* one call: while one request is between its appends, the append of the
\* other, waiting, request can take place
C25_AppendsCanInterleave ==
  \A a \in ChatTasks, b \in ChatTasks :
    (/\ a # b
     /\ loop.task[a].pc = "in_call"
     /\ loop.task[b].pc = "pending"
     /\ loop.task[a].session_id \in DOMAIN sessions)
      => ENABLED (ChatTaskRuns(b)
                  /\ Len(sessions'[loop.task[a].session_id].messages)
                       > Len(sessions[loop.task[a].session_id].messages))

\* the stored history of every session not in the middle of a call is the
\* tail of question 1, answer 1, question 2, answer 2, ... of the successful
\* calls made on it: the appends of two calls are never interleaved
HistoryNeverInterleaved ==
  \A s \in DOMAIN sessions :
    (/\ \A t \in ChatTasks : ~(loop.task[t].pc = "in_call" /\ loop.task[t].session_id = s)
     /\ \A k \in 1..Len(turns[s]) : turns[s][k].ok)
      => LET dialogue == Dialogue(turns[s])
         IN Stored(s) = LastN(dialogue, Min(MaxHistory, Len(dialogue)))

\* clear_session has run while a chat call was between its two appends
ClearBetweenAppends ==
  \E t \in ChatTasks, x \in Tasks :
    /\ TaskKind[x] = "clear"
    /\ loop.task[t].pc = "in_call"
    /\ loop.task[x].pc = "done"
    /\ loop.task[t].session_id \notin DOMAIN sessions

\* no clear_session takes effect between the two appends of a chat call
NoClearBetweenAppends == ~ClearBetweenAppends

(***************************************************************************)
(* Further properties of chat_with_agent and of the session store          *)
(***************************************************************************)
\* C26: the conversation history passed to the generate step does not hold
\* the message the call has just appended: it is the (at most 4) stored
\* messages immediately before the current user message, oldest first
C26_HistoryExcludesCurrent ==
  chat.pc \in {"generating", "done"} =>
    LET stored == chat.stored_at_call
        before == SubSeq(stored, 1, Len(stored) - 1)
        n == Min(4, Len(before))
    IN /\ stored[Len(stored)].role = "user"
       /\ stored[Len(stored)].content = chat.message
       /\ Len(chat.conversation_history) = n
       /\ \A i \in 1..n :
            chat.conversation_history[i] = stored[Len(stored) - 1 - n + i]

\* C26 witness: a call on a session whose history is full
C26_Witness ==
  /\ chat.pc = "generating"
  /\ Len(chat.stored_at_call) = MaxHistory
  /\ Len(chat.conversation_history) = 4
  /\ chat.conversation_history[4].role = "assistant"

\* the session a call of the store is applied to
CallTarget(c) == IF c.op = "get_or_create_session" THEN c.retId ELSE c.sid

\* C28: add_message, get_or_create_session and clear_session applied to one
\* session leave the messages and the existence of every other session
\* unchanged, and only clear_session removes a session from the store
C28_SessionIsolation ==
  [][\A b \in SessionIds :
       LET before == b \in DOMAIN sessions
           after == b \in DOMAIN sessions'
           changed == \/ before # after
                      \/ /\ before
                         /\ after
                         /\ sessions'[b].messages # sessions[b].messages
       IN /\ changed => b = CallTarget(call')
          /\ (before /\ ~after) => call'.op = "clear_session"]_vars

\* C28 witness: a message was appended to one of two stored sessions
C28_Witness ==
  /\ call.op = "add_message"
  /\ call.sid = "u1"
  /\ DOMAIN sessions = {"s1", "u1"}
  /\ Len(sessions["u1"].messages) = 1
  /\ Len(sessions["s1"].messages) = MaxHistory

\* C29: a chat call that fails in the generate step is not rolled back: the
\* session it resolved or created still exists, and its history has gained
\* one entry, the user's message, with no assistant entry after it
C29_FailedCallKeepsUserMessage ==
  [][(chat.pc = "generating" /\ chat'.pc = "done" /\ chat'.outcome # "answer") =>
       /\ chat.session_id \in DOMAIN sessions'
       /\ LET grown == Append(chat.stored_before,
                              Message("user", chat.message, now))
              kept == sessions'[chat.session_id].messages
          IN /\ kept = LastN(grown, Min(MaxHistory, Len(grown)))
             /\ kept[Len(kept)].role = "user"]_vars

\* C29 witness: the call that failed had created its session, which now
\* holds the user's message alone
C29_Witness ==
  /\ chat.pc = "done"
  /\ chat.outcome \in GenerationOutcomes \ {"answer"}
  /\ chat.created
  /\ chat.session_id \in DOMAIN sessions
  /\ Len(sessions[chat.session_id].messages) = 1
  /\ sessions[chat.session_id].messages[1].content = chat.message
  /\ chat.out.status = 500

====
